---- MODULE Spec2Model ----
(***************************************************************************)
(* A model of the graph runner of core-engine-vis (VisGraphRunner): the    *)
(* fibers it spawns, the node invocations, the wait primitive, transition  *)
(* routing, cancellation and completion.                                   *)
(*                                                                         *)
(* JavaScript runs every piece of code between two suspension points       *)
(* atomically, so each action below is one such synchronous segment: the   *)
(* code from one await (or promise callback) up to the next one.  The body *)
(* of a custom node is opaque: it is started by an invocation and later    *)
(* returns one of the results its kind can produce, or throws.  The bodies *)
(* of the built-in Branch, Loop and Delay nodes are computed as their code *)
(* computes them.                                                          *)
(***************************************************************************)
EXTENDS Integers, Sequences, FiniteSets, TLC

VARIABLES
    roots,        \* VisGraph.roots of the hydrated graph that is run
    status,       \* VisGraphRunner._status
    signal,       \* VisExecutionSignal: [cancelled, fastForward, reason] and (history)
                  \* the events it has emitted
    completion,   \* _completionPromise: "none", "pending" or "resolved"
    fib,          \* every fiber created so far, indexed by _fiberCounter; `awaiting`
                  \* holds the parallelAwaitables of the fiber's latest routing step,
                  \* `res` the result whose waitFor clause the fiber is handling,
                  \* `base` (history) the completion counts when that wait began,
                  \* `inputs` the inputs built for the latest invocation, `called`
                  \* (history) the methods of the node that invocation called and
                  \* `ready` the promise _invokeNode returned for it
    live,         \* VisGraphRunner._fibers (the promises not yet settled)
    counts,       \* VisGraphRunner._completionCounts
    waiters,      \* VisGraphRunner._waiters, flattened to a set of waiters
    scope,        \* VisScope._values
    invoked,      \* history: number of invocations begun, per node
    emitted,      \* history: the <<nodeId, pinId>> pairs for which an output with a
                  \* defined value was applied
    child,        \* the VisGraphRunner created by the Run Subgraph node G: the position
                  \* of its one fiber, its _status, its completion promise, its own
                  \* signal's cancelled flag, and (history) the status of the result
                  \* its node returned and of the result the body of G returned
    runCalls,     \* history: number of calls of run() (counted up to MaxRunCalls)
    cancelCalls,  \* history: number of calls of cancel() (counted up to MaxCancelCalls)
    userCancel,   \* history: cancel() was called on a running runner with a live fiber
    listeners,    \* VisExecutionSignal._listeners, in insertion order
    notes,        \* history: the <<event, reason>> calls each subscriber has received
    sigCalls,     \* history: number of calls of the signal's cancel and
                  \* requestFastForward (counted up to MaxSignalCalls)
    removed,      \* history: the subscribers whose unsubscribe token removed them
    blackboard,   \* VisBlackboard._state
    fastForwardSet,   \* VisGraphRunner._fastForwardSet
    fastForwardRules, \* VisGraphRunner._fastForwardRules, as the set of the rules pushed
    params,       \* the parameters and literal inputs of the nodes of the graph
                  \* (VisSerializedNode.params and .inputs)
    call,         \* a call of a function of the library on its own: the function
                  \* and its arguments
    ret           \* what that call returned, once it has

\* the subscribers of the signal and what is recorded about them
sigvars == <<listeners, notes, sigCalls, removed>>

\* what no step of a fiber changes
othervars == <<fastForwardSet, fastForwardRules, params, call, ret>>

\* the state of the runner
runnervars == <<roots, status, completion, fib, live, counts, waiters, scope,
                invoked, emitted, child, runCalls, cancelCalls, userCancel,
                blackboard, othervars>>

vars == <<roots, status, signal, completion, fib, live, counts, waiters, scope,
          invoked, emitted, child, runCalls, cancelCalls, userCancel,
          listeners, notes, sigCalls, removed,
          blackboard, fastForwardSet, fastForwardRules, params, call, ret>>

----------------------------------------------------------------------------
(* Bounds of the model: the calls of run() and of cancel() are counted up  *)
(* to these numbers; further calls are still made, and no longer counted. *)

MaxRunCalls == 2
MaxCancelCalls == 2
MaxSignalCalls == 2

countCall(n, max) == IF n < max THEN n + 1 ELSE n

----------------------------------------------------------------------------
(* The graphs that are run: the roots tell which one.                       *)
(*   S --par--> A, W      (pin "par" is declared parallel)                  *)
(*   S --seq--> B, C      (sequential)                                      *)
(*   B --next-> D                                                           *)
(* W is a join that waits for other nodes (one of its waitFor lists names   *)
(* "Z", which is not a node of the graph), A may throw, C is a Get Variable *)
(* node whose variable is not set.  The value "undef" stands for undefined. *)
(*   G --next-> H                                                           *)
(* G is a Run Subgraph node (awaitCompletion, shareScope and                *)
(* shareBlackboard at their defaults) whose graph has the sole node K.      *)
(*   Gq, alone in its graph, is a Run Subgraph node like G, whose graph is  *)
(*   K --next-> K2.                                                         *)
(*   St --next-> L --body-> I --next-> L,  L --complete-> E                 *)
(* L is a Loop node, and the input index of I is connected to its output.   *)
(*   Br --true-> T,  Br --false-> F                                         *)
(* Br is a Branch node with a literal input condition.                      *)
(*   Dl --next-> N                                                          *)
(* Dl is a Delay node with a positive duration.                             *)
(*   X --next-> M, Y     M --a-> P, Q     M --b-> R                         *)
(* M takes two transitions, a then b.                                       *)
(*   Fk --fork-> Jn      (pin "fork" is declared parallel)                  *)
(* Jn is a join that waits for Fk, the node that forked it.                 *)

\* VisGraph._nodes of the graph that is run
Nodes ==
    CASE roots = <<"St">> -> {"St", "L", "I", "E"}
      [] roots = <<"Br">> -> {"Br", "T", "F"}
      [] roots = <<"Dl">> -> {"Dl", "N"}
      [] roots = <<"X">> -> {"X", "M", "Y", "P", "Q", "R"}
      [] roots = <<"Fk">> -> {"Fk", "Jn"}
      [] roots = <<"Gq">> -> {"Gq"}
      [] OTHER -> {"S", "A", "B", "C", "D", "W", "G", "H"}

RootChoices == {<<>>, <<"S">>, <<"W", "S">>, <<"G">>}

Terminal == {"completed", "cancelled", "failed"}

\* VisGraph.getNext: the targets connected to an output pin, in connection order
getNext(nodeId, pinId) ==
    CASE nodeId = "S" /\ pinId = "par" -> <<"A", "W">>
      [] nodeId = "S" /\ pinId = "seq" -> <<"B", "C">>
      [] nodeId = "B" /\ pinId = "next" -> <<"D">>
      [] nodeId = "G" /\ pinId = "next" -> <<"H">>
      [] nodeId = "St" /\ pinId = "next" -> <<"L">>
      [] nodeId = "L" /\ pinId = "body" -> <<"I">>
      [] nodeId = "L" /\ pinId = "complete" -> <<"E">>
      [] nodeId = "I" /\ pinId = "next" -> <<"L">>
      [] nodeId = "Br" /\ pinId = "true" -> <<"T">>
      [] nodeId = "Br" /\ pinId = "false" -> <<"F">>
      [] nodeId = "Dl" /\ pinId = "next" -> <<"N">>
      [] nodeId = "X" /\ pinId = "next" -> <<"M", "Y">>
      [] nodeId = "M" /\ pinId = "a" -> <<"P", "Q">>
      [] nodeId = "M" /\ pinId = "b" -> <<"R">>
      [] nodeId = "Fk" /\ pinId = "fork" -> <<"Jn">>
      [] OTHER -> <<>>

\* the type of a node (VisGraphNode.type)
nodeType(nodeId) ==
    CASE nodeId = "L" -> "vis.control.loop"
      [] nodeId = "Br" -> "vis.control.branch"
      [] nodeId = "Dl" -> "vis.control.delay"
      [] OTHER -> "custom"

\* VisGraph._dataMap: the scope keys of the sources connected to each input pin
dataMap(nodeId) ==
    IF nodeId = "I" THEN [pinId \in {"index"} |-> <<"L:index">>] ELSE <<>>

\* definition.options.defaultOutput of a node ("undef" when the kind has none)
defaultOutput(nodeId) ==
    CASE nodeId \in {"S", "M", "Fk"} -> "undef"
      [] nodeId = "L" -> "body"
      [] nodeId = "Br" -> "true"
      [] OTHER -> "next"

\* strategy declared on an output pin of the node's definition ("undef" when none)
pinStrategy(nodeId, pinId) ==
    IF (nodeId = "S" /\ pinId = "par") \/ (nodeId = "Fk" /\ pinId = "fork")
    THEN "parallel" ELSE "undef"

NoResult == [status |-> "success", waitFor |-> <<>>, waitForNext |-> FALSE,
             outputs |-> <<>>, transitions |-> <<>>]

\* VisNodeResult.waitFor(targets, {next, outputs, transitions})
WaitForResult(targets, next, outputs, transitions) ==
    [status |-> "running", waitFor |-> targets, waitForNext |-> next,
     outputs |-> outputs, transitions |-> transitions]

\* the transition a Wait For node takes after its wait
NextPin == <<[pinId |-> "next", strategy |-> "sequential", awaitCompletion |-> "undef"]>>

\* VisNodeResult.failure(message)
failure(message) ==
    [NoResult EXCEPT !.status = "failure", !.outputs = << <<"error", message>> >>]

\* the parameter awaitCompletion of the Run Subgraph node
awaitCompletion == TRUE

\* VisRunSubgraphNode._onExecute from `if (this.awaitCompletion)` on: the result
\* of the body of G, given the child runner c
subgraphResult(c) ==
    IF awaitCompletion /\ c.status = "failed" THEN failure("Subgraph failed")
    ELSE [NoResult EXCEPT !.transitions =
             <<[pinId |-> "next", strategy |-> "undef", awaitCompletion |-> "undef"]>>]

\* The results the sole node of the child graph can return
ChildResults == { NoResult, failure("K failed") }

\* The results the body of a node can return (VisNodeExecutionResult)
Results(nodeId) ==
    CASE nodeId = "S" ->
           { [NoResult EXCEPT !.transitions =
                 << [pinId |-> "par", strategy |-> "undef", awaitCompletion |-> a],
                    [pinId |-> "seq", strategy |-> "sequential", awaitCompletion |-> "undef"] >>]
             : a \in {"undef", "false"} }
      [] nodeId = "A" -> { [NoResult EXCEPT !.outputs = << <<"v", "A">> >>] }
      [] nodeId = "H" -> { [NoResult EXCEPT !.outputs = << <<"out", "H">> >>] }
      [] nodeId = "C" -> { [NoResult EXCEPT !.outputs = << <<"value", "undef">> >>,
                                            !.transitions = NextPin] }
      [] nodeId = "W" ->
           { WaitForResult(<<"D">>, FALSE, << <<"nodes", "D">> >>, NextPin),
             WaitForResult(<<"A">>, TRUE, <<>>, <<>>),
             WaitForResult(<<"A", "D">>, FALSE, << <<"nodes", "A,D">> >>, NextPin),
             WaitForResult(<<"A", "Z">>, FALSE, << <<"nodes", "A,Z">> >>, NextPin) }
      [] nodeId = "M" ->
           { [NoResult EXCEPT !.transitions =
                 << [pinId |-> "a", strategy |-> "undef", awaitCompletion |-> "undef"],
                    [pinId |-> "b", strategy |-> "sequential", awaitCompletion |-> "undef"] >>] }
      [] nodeId = "Fk" ->
           { [NoResult EXCEPT !.transitions =
                 << [pinId |-> "fork", strategy |-> "undef", awaitCompletion |-> a] >>]
             : a \in {"undef", "false"} }
      [] nodeId = "Jn" ->
           { WaitForResult(<<"Fk">>, next, << <<"nodes", "Fk">> >>, NextPin)
             : next \in BOOLEAN }
      [] OTHER -> { NoResult }

\* The nodes whose body can throw (reject the promise returned by execute)
Throwing == {"A"}

----------------------------------------------------------------------------
(* The node base class, the graph's inputs and the built-in nodes.         *)

\* VisNodeResult.skipped() and VisNodeResult.cancelled()
skipped == [NoResult EXCEPT !.status = "skipped"]

\* an execute that looks at the fastForward flag first
executeFastForwardFirst(sig, onExecute, onFastForward) ==
    IF sig.fastForward THEN [result |-> onFastForward, called |-> {"onFastForward"}]
    ELSE IF sig.cancelled THEN [result |-> skipped, called |-> {}]
    ELSE [result |-> onExecute, called |-> {"_onExecute"}]

\* VisRuntimeNode.execute: the result, and the hooks of the node it called;
\* onExecute and onFastForward are what the hooks return when called
execute(sig, onExecute, onFastForward) ==
    IF sig.cancelled THEN [result |-> skipped, called |-> {}]
    ELSE IF sig.fastForward THEN [result |-> onFastForward, called |-> {"onFastForward"}]
    ELSE [result |-> onExecute, called |-> {"_onExecute"}]

\* VisScope.get of the scope key of a source: "undef" when the key is absent
scopeGet(sc, key) == IF key \in DOMAIN sc THEN sc[key] ELSE "undef"

\* a loop over the sources that assigns every value, undefined or not
RECURSIVE overlayAll(_, _, _)
overlayAll(value, sources, sc) ==
    IF sources = <<>> THEN value
    ELSE overlayAll(scopeGet(sc, Head(sources)), Tail(sources), sc)

\* the loop over the sources of one pin in buildInputs: value is values[pinId]
RECURSIVE overlay(_, _, _)
overlay(value, sources, sc) ==
    IF sources = <<>> THEN value
    ELSE overlay(IF scopeGet(sc, Head(sources)) # "undef"
                 THEN scopeGet(sc, Head(sources)) ELSE value,
                 Tail(sources), sc)

\* VisGraph.buildInputs: literalInputs and the result map pins to values,
\* binding (the _dataMap entry of the node) maps pins to lists of scope keys;
\* a pin that holds "undef" in the result is one that the object returned has
\* no defined value for
buildInputs(literalInputs, binding, sc) ==
    [pinId \in (DOMAIN literalInputs) \cup (DOMAIN binding) |->
        overlay(IF pinId \in DOMAIN literalInputs THEN literalInputs[pinId] ELSE "undef",
                IF pinId \in DOMAIN binding THEN binding[pinId] ELSE <<>>, sc)]

\* the promise returned for a body that has not returned yet
Pending == [NoResult EXCEPT !.status = "pending"]

\* the promise returned for a Delay body that sleeps in waitWithSignal
Sleeping == [NoResult EXCEPT !.status = "sleeping"]

\* the value undefined of an input or a literal
Undefined == [type |-> "undefined"]

\* a boolean as the value of an input or a literal
Boolean(b) == [type |-> "boolean", boolean |-> b]

\* VisGraph._literalInputs of a node, given the literals of the asset
literalInputs(nodeId, ps) ==
    IF nodeId = "Br" /\ ps.condition # Undefined
    THEN [pinId \in {"condition"} |-> ps.condition] ELSE <<>>

\* VisNodeExecutionContext.getInput: `this.inputs[pinId] ?? fallback`, for a
\* pin that holds a defined value when the inputs have it
getInput(inputs, pinId, fallback) ==
    IF pinId \in DOMAIN inputs THEN inputs[pinId] ELSE fallback

\* toBoolean
toBoolean(value, fallback) ==
    CASE value.type = "boolean" -> value.boolean
      [] value.type = "number" -> value.number # 0
      [] value.type = "string" -> Len(value.string) > 0
      [] OTHER -> fallback

\* VisBranchNode._onExecute
branchOnExecute(inputs, ps) ==
    LET decision == toBoolean(getInput(inputs, "condition", Boolean(ps.defaultCondition)),
                              ps.defaultCondition)
        pinId == IF decision THEN "true" ELSE "false"
    IN  [NoResult EXCEPT !.transitions =
            <<[pinId |-> pinId, strategy |-> "sequential", awaitCompletion |-> "undef"]>>]

\* `Math.max(0, Math.floor(toNumber(...)))` of a count that is an integer
loopTotal(count) == IF count > 0 THEN count ELSE 0

\* the key of a Loop node's index on the blackboard (the loopKey is "loop")
loopKey(nodeId) == "loop:" \o nodeId \o ":loop"

\* a test that lets the loop run once more
loopContinuesInclusive(current, total) == current <= total

\* `if (current < total)`
loopContinues(current, total) == current < total

\* VisLoopNode._onExecute: [result, blackboard]
loopOnExecute(nodeId, inputs, ps, bb) ==
    LET total == loopTotal(getInput(inputs, "count", ps.count))
        key == loopKey(nodeId)
        current == IF key \in DOMAIN bb THEN bb[key] ELSE 0
    IN  IF loopContinues(current, total)
        THEN [result |-> [NoResult EXCEPT
                             !.outputs = << <<"index", ToString(current)>> >>,
                             !.transitions = <<[pinId |-> "body", strategy |-> "undef",
                                                awaitCompletion |-> "undef"]>>],
              blackboard |-> [k \in (DOMAIN bb) \cup {key} |->
                                 IF k = key THEN current + 1 ELSE bb[k]]]
        ELSE [result |-> [NoResult EXCEPT
                             !.transitions = <<[pinId |-> "complete", strategy |-> "undef",
                                                awaitCompletion |-> "undef"]>>],
              blackboard |-> [k \in (DOMAIN bb) \ {key} |-> bb[k]]]

\* VisDelayNode._onExecute up to its await: the duration is positive, so that
\* waitWithSignal sleeps unless a flag of the signal is set
delayOnExecute(sig) ==
    IF sig.fastForward \/ sig.cancelled THEN skipped ELSE Sleeping

\* VisDelayNode._onExecute after `await waitWithSignal(duration, ctx)`
delayResume(sig) ==
    IF sig.cancelled THEN skipped
    ELSE IF sig.fastForward THEN skipped
    ELSE [NoResult EXCEPT !.transitions =
             <<[pinId |-> "next", strategy |-> "undef", awaitCompletion |-> "undef"]>>]

\* a timer that does not wake the sleeper when the signal emits an event
wakeSleepersNever(fibers, sig, sig1) == fibers

\* the subscriber of waitWithSignal: an event of the signal resolves the
\* promise every sleeping Delay body awaits, and the body runs on
wakeSleepers(fibers, sig, sig1) ==
    IF Len(sig1.events) > Len(sig.events)
    THEN [i \in DOMAIN fibers |->
             IF fibers[i].ready = Sleeping
             THEN [fibers[i] EXCEPT !.ready = delayResume(sig1)] ELSE fibers[i]]
    ELSE fibers

\* _onExecute of a node up to its first await: [result, blackboard]
onExecute(nodeId, inputs, ps, bb, sig) ==
    CASE nodeId = "Br" -> [result |-> branchOnExecute(inputs, ps), blackboard |-> bb]
      [] nodeId = "L" -> loopOnExecute(nodeId, inputs, ps, bb)
      [] nodeId = "Dl" -> [result |-> delayOnExecute(sig), blackboard |-> bb]
      [] OTHER -> [result |-> Pending, blackboard |-> bb]

\* VisRuntimeNode.onFastForward, which no node of the library overrides
onFastForward(nodeId) == skipped

\* the rules a caller passes to fastForwardWhere: one matches the Delay nodes
\* by type, the other matches no node
Rules == {"delays", "none"}

\* the call rule(nodeId, nodeType); the rule "loops" matches the Loop nodes by type
ruleMatches(rule, nodeId, type) ==
    \/ rule = "delays" /\ type = "vis.control.delay"
    \/ rule = "loops" /\ type = "vis.control.loop"

\* a _shouldFastForward that looks at the set only
shouldFastForwardSetOnly(nodeId, type, set, rules) == nodeId \in set

\* _shouldFastForward
shouldFastForward(nodeId, type, set, rules) ==
    IF nodeId \in set THEN TRUE
    ELSE \E rule \in rules : ruleMatches(rule, nodeId, type)

\* the call node.instance.execute(ctx) of _invokeNode, where e is what
\* VisRuntimeNode.execute makes of body, the [result, blackboard] of _onExecute:
\* the blackboard is the one _onExecute leaves when execute called it
executed(e, body, bb) ==
    [result |-> e.result, called |-> {"execute"} \cup e.called,
     blackboard |-> IF "_onExecute" \in e.called THEN body.blackboard ELSE bb]

\* the two ways of _invokeNode, where body is the [result, blackboard] of
\* _onExecute up to its first await
dispatch(nodeId, body, bb, sig, set, rules) ==
    IF shouldFastForward(nodeId, nodeType(nodeId), set, rules)
    THEN [result |-> onFastForward(nodeId), called |-> {"onFastForward"}, blackboard |-> bb]
    ELSE executed(execute(sig, body.result, onFastForward(nodeId)), body, bb)

\* _invokeNode up to the first await of the node: the promise it returns, the
\* methods of the node it called and the blackboard it leaves
invokeNode(nodeId, inputs, ps, bb, sig, set, rules) ==
    dispatch(nodeId, onExecute(nodeId, inputs, ps, bb, sig), bb, sig, set, rules)

----------------------------------------------------------------------------
(* Pure helpers of the runner.  R is the part of the runner's state that   *)
(* the helpers change: [fib, live, counts, waiters, scope, invoked,        *)
(* emitted, child, blackboard]; signal is the runner's signal, which they   *)
(* read.                                                                   *)

RunnerState == [fib |-> fib, live |-> live, counts |-> counts,
                waiters |-> waiters, scope |-> scope, invoked |-> invoked,
                emitted |-> emitted, child |-> child, blackboard |-> blackboard,
                signal |-> signal]

\* no child runner has been created
NoChild == [pc |-> "none", status |-> "idle", completion |-> "none", cancelled |-> FALSE,
            result |-> "none", yield |-> "none", node |-> "none", queue |-> <<>>,
            invoked |-> 0]

\* the Run Subgraph nodes
Subgraphs == {"G", "Gq"}

\* the nodes of the graph a Run Subgraph node runs, a chain from the root on
childGraph(nodeId) == IF nodeId = "Gq" THEN <<"K", "K2">> ELSE <<"K">>

\* VisRunSubgraphNode._onExecute up to `await handle.awaitCompletion()`: the new
\* runner's run() spawns the fiber of the child graph's root, which invokes it
runSubgraph(c, nodeId) ==
    [c EXCEPT !.pc = "invoking", !.status = "running", !.completion = "pending",
              !.cancelled = FALSE, !.result = "none",
              !.node = Head(childGraph(nodeId)), !.queue = Tail(childGraph(nodeId)),
              !.invoked = 1]

\* the results the body of a node in flight can return now: the body of G
\* returns once the child runner's completion promise is resolved
Returnable(nodeId, c) ==
    IF nodeId \in Subgraphs
    THEN IF awaitCompletion /\ c.completion # "resolved" THEN {} ELSE {subgraphResult(c)}
    ELSE Results(nodeId)

\* the results `await this._invokeNode(...)` can yield now, given the promise
\* _invokeNode returned and the node invoked
Settled(ready, nodeId, c) ==
    IF ready = Pending THEN Returnable(nodeId, c)
    ELSE IF ready = Sleeping THEN {}
    ELSE {ready}

ZeroCounts == [n \in Nodes |-> 0]

\* a loop predicate that forgets the cancellation check
LoopGuardNoCancel(cancelled, queue) == Len(queue) > 0

\* the loop predicate of _runFiber
LoopGuard(cancelled, queue) == ~cancelled /\ Len(queue) > 0

\* the body of the loop of _runFiber up to `await this._invokeNode(...)`, where
\* inv is what _invokeNode did up to the first await of the node
invoking(R, f, scheduled, inputs, inv) ==
    [R EXCEPT !.fib[f] = [@ EXCEPT !.queue = Tail(@), !.pc = "invoking",
                                   !.node = scheduled.nodeId,
                                   !.res = NoResult,
                                   !.log = Append(@, scheduled),
                                   !.inputs = inputs,
                                   !.called = inv.called,
                                   !.ready = inv.result],
              !.invoked[scheduled.nodeId] = @ + 1,
              !.blackboard = inv.blackboard,
              !.child = IF scheduled.nodeId \in Subgraphs /\ "_onExecute" \in inv.called
                        THEN runSubgraph(@, scheduled.nodeId) ELSE @]

\* the body of the loop of _runFiber from the inputs built
invoke(R, f, scheduled, inputs) ==
    invoking(R, f, scheduled, inputs,
             invokeNode(scheduled.nodeId, inputs, params, R.blackboard, R.signal,
                        fastForwardSet, fastForwardRules))

\* _runFiber from the loop predicate up to `await this._invokeNode(...)`
runFiber(R, f, cancelled) ==
    LET fb == R.fib[f] IN
    IF LoopGuard(cancelled, fb.queue)
    THEN LET scheduled == Head(fb.queue) IN
         IF scheduled.nodeId \notin Nodes
         THEN [R EXCEPT !.fib[f] = [fb EXCEPT !.queue = Tail(@), !.pc = "threw",
                                               !.node = "none", !.failed = TRUE]]
         ELSE invoke(R, f, scheduled,
                     buildInputs(literalInputs(scheduled.nodeId, params),
                                 dataMap(scheduled.nodeId), R.scope))
    ELSE [R EXCEPT !.fib[f] = [fb EXCEPT !.pc = "returned", !.node = "none", !.res = NoResult]]

\* _spawnFiber: the new fiber runs synchronously up to its first await
spawnFiber(R, nodeId, cancelled) ==
    LET id == Len(R.fib) + 1
        fiber == [queue |-> <<[nodeId |-> nodeId, seq |-> 1, step |-> 0]>>,
                  pc |-> "new", node |-> "none", res |-> NoResult,
                  awaiting |-> {}, pushed |-> 1, steps |-> 0,
                  log |-> <<>>, failed |-> FALSE, base |-> ZeroCounts,
                  inputs |-> <<>>, called |-> {}, ready |-> Pending]
        R1 == [R EXCEPT !.fib = Append(@, fiber)]
        R2 == runFiber(R1, id, cancelled)
    IN  [R2 EXCEPT !.live = @ \cup {id}]

\* a test that the completion has to exceed the waiter's target
satisfiedAbove(w, nodeId, nextCount) == w.node = nodeId /\ nextCount > w.targetCount

\* the waiters of the node that _markNodeCompleted resolves and removes:
\* `if (nextCount >= waiter.targetCount)`
satisfied(w, nodeId, nextCount) == w.node = nodeId /\ nextCount >= w.targetCount

\* a completion that resolves every waiter, whatever node it waits for
markNodeCompletedWakeAll(R, nodeId) ==
    [R EXCEPT !.counts[nodeId] = @ + 1, !.waiters = {}]

\* _markNodeCompleted
markNodeCompleted(R, nodeId) ==
    LET nextCount == R.counts[nodeId] + 1 IN
    [R EXCEPT !.counts[nodeId] = nextCount,
              !.waiters = {w \in @ : ~satisfied(w, nodeId, nextCount)}]

\* a target that the first completion of the node satisfies, whatever waitForNext says
targetCountFirst(waitForNext, completed) == 1

\* `const targetCount = waitForNext ? completed + 1 : 1`
targetCount(waitForNext, completed) == IF waitForNext THEN completed + 1 ELSE 1

\* a _waitForNode that registers a waiter whatever the completion count is
waitForNodeAlways(R, f, nodeId, waitForNext, k) ==
    [R EXCEPT !.waiters = @ \cup {[node |-> nodeId,
                                   targetCount |-> targetCount(waitForNext, R.counts[nodeId]),
                                   fiber |-> f, k |-> k]}]

\* _waitForNode: registers a waiter unless the wait is already satisfied
waitForNode(R, f, nodeId, waitForNext, k) ==
    LET completed == R.counts[nodeId]
        target == targetCount(waitForNext, completed)
    IN  IF ~waitForNext /\ completed >= target THEN R
        ELSE IF waitForNext /\ completed >= target THEN R
        ELSE [R EXCEPT !.waiters = @ \cup {[node |-> nodeId, targetCount |-> target,
                                            fiber |-> f, k |-> k]}]

\* _waitForNodes up to its await: [R, thrown]
RECURSIVE waitForNodes(_, _, _, _, _)
waitForNodes(R, f, nodeIds, waitForNext, k) ==
    IF k > Len(nodeIds) THEN [R |-> R, thrown |-> FALSE]
    ELSE IF nodeIds[k] \notin Nodes THEN [R |-> R, thrown |-> TRUE]
    ELSE waitForNodes(waitForNode(R, f, nodeIds[k], waitForNext, k), f, nodeIds, waitForNext, k + 1)

\* makeScopeKey
makeScopeKey(nodeId, pinId) == nodeId \o ":" \o pinId

\* _applyOutputs: outputs is the list of [pinId, value] entries of result.outputs
RECURSIVE applyOutputs(_, _, _)
applyOutputs(sc, nodeId, outputs) ==
    IF outputs = <<>> THEN sc
    ELSE LET key == makeScopeKey(nodeId, Head(outputs)[1])
             sc1 == [x \in (DOMAIN sc) \cup {key} |->
                        IF x = key THEN Head(outputs)[2] ELSE sc[x]]
         IN  applyOutputs(sc1, nodeId, Tail(outputs))

\* _defaultTransitions
defaultTransitions(nodeId) ==
    IF defaultOutput(nodeId) = "undef" THEN <<>>
    ELSE <<[pinId |-> defaultOutput(nodeId), strategy |-> "sequential", awaitCompletion |-> "undef"]>>

\* _normalizeTransitions
normalizeTransitions(nodeId, transitions) ==
    LET list == IF Len(transitions) > 0 THEN transitions ELSE defaultTransitions(nodeId) IN
    [i \in 1..Len(list) |->
        IF list[i].strategy # "undef" THEN list[i]
        ELSE [list[i] EXCEPT !.strategy =
                 IF pinStrategy(nodeId, list[i].pinId) # "undef"
                 THEN pinStrategy(nodeId, list[i].pinId) ELSE "sequential"]]

\* `transition.awaitCompletion !== false`
Awaited(transition) == transition.awaitCompletion # "false"

\* the loop over the targets of one transition in _routeTransitions
RECURSIVE routeTargets(_, _, _, _)
routeTargets(acc, targets, transition, cancelled) ==
    IF targets = <<>> \/ acc.thrown THEN acc
    ELSE LET target == Head(targets) IN
         IF target \notin Nodes THEN [acc EXCEPT !.thrown = TRUE]
         ELSE IF transition.strategy = "parallel"
         THEN LET R1 == spawnFiber(acc.R, target, cancelled)
                  promise == Len(R1.fib)
              IN  routeTargets([acc EXCEPT !.R = R1,
                                           !.parallelAwaitables =
                                               IF Awaited(transition) THEN @ \cup {promise} ELSE @],
                               Tail(targets), transition, cancelled)
         ELSE routeTargets([acc EXCEPT !.sequential = Append(@, target)],
                           Tail(targets), transition, cancelled)

\* a loop over the transitions that starts with the last one
RECURSIVE routeListLastFirst(_, _, _, _)
routeListLastFirst(acc, nodeId, list, cancelled) ==
    IF list = <<>> \/ acc.thrown THEN acc
    ELSE routeListLastFirst(routeTargets(acc, getNext(nodeId, list[Len(list)].pinId),
                                         list[Len(list)], cancelled),
                            nodeId, SubSeq(list, 1, Len(list) - 1), cancelled)

\* the loop over the transitions in _routeTransitions
RECURSIVE routeList(_, _, _, _)
routeList(acc, nodeId, list, cancelled) ==
    IF list = <<>> \/ acc.thrown THEN acc
    ELSE routeList(routeTargets(acc, getNext(nodeId, Head(list).pinId), Head(list), cancelled),
                   nodeId, Tail(list), cancelled)

\* unshifting the targets one at a time, which reverses them
unshiftEach(queue, items) == [i \in 1..Len(items) |-> items[Len(items) + 1 - i]] \o queue

\* `fiber.queue.unshift(...sequential)`
unshift(queue, items) == items \o queue

\* _routeTransitions up to its await, followed (when it throws) by the
\* finally block of _runFiber
routeTransitions(R, f, nodeId, transitions, cancelled) ==
    LET list == normalizeTransitions(nodeId, transitions)
        acc == routeList([R |-> R, sequential |-> <<>>, parallelAwaitables |-> {},
                          thrown |-> FALSE], nodeId, list, cancelled)
        fb == acc.R.fib[f]
        n == Len(acc.sequential)
        entries == [i \in 1..n |-> [nodeId |-> acc.sequential[i],
                                    seq |-> fb.pushed + i, step |-> fb.steps + 1]]
    IN  IF acc.thrown
        THEN LET R1 == markNodeCompleted(acc.R, nodeId) IN
             [R1 EXCEPT !.fib[f] = [fb EXCEPT !.pc = "threw", !.failed = TRUE,
                                               !.res = NoResult, !.base = ZeroCounts]]
        ELSE [acc.R EXCEPT !.fib[f] =
                 [fb EXCEPT !.queue = IF n > 0 THEN unshift(@, entries) ELSE @,
                            !.pushed = @ + n,
                            !.steps = IF n > 0 THEN @ + 1 ELSE @,
                            !.pc = "routing",
                            !.res = NoResult,
                            !.base = ZeroCounts,
                            !.awaiting = acc.parallelAwaitables]]

\* the <<nodeId, pinId>> pairs of the entries of outputs that hold a defined value
definedPins(nodeId, outputs) ==
    {<<nodeId, outputs[i][1]>> : i \in {j \in 1..Len(outputs) : outputs[j][2] # "undef"}}

\* _runFiber after the wait: apply the outputs and route the transitions
applyAndRoute(R, f, result, cancelled) ==
    LET nodeId == R.fib[f].node
        R1 == [R EXCEPT !.scope = applyOutputs(@, nodeId, result.outputs),
                        !.emitted = @ \cup definedPins(nodeId, result.outputs)]
    IN  routeTransitions(R1, f, nodeId, result.transitions, cancelled)

\* a _finish without the guard on terminal states
finishOverwrite(st, compl, state) ==
    [status |-> state,
     completion |-> IF compl = "pending" THEN "resolved" ELSE compl]

\* _finish: [status, completion] after the call
finish(st, compl, state) ==
    [status |-> IF st \in Terminal THEN st ELSE state,
     completion |-> IF compl = "pending" THEN "resolved" ELSE compl]

\* a cancel that sets the reason and emits whether or not the flag is set
signalCancelAgain(sig, reason) ==
    [sig EXCEPT !.cancelled = TRUE, !.reason = reason, !.events = Append(@, "cancel")]

\* VisExecutionSignal.cancel
signalCancel(sig, reason) ==
    IF sig.cancelled THEN sig
    ELSE [sig EXCEPT !.cancelled = TRUE, !.reason = reason, !.events = Append(@, "cancel")]

\* a requestFastForward that sets the reason and emits whether or not the flag is set
requestFastForwardAgain(sig, reason) ==
    [sig EXCEPT !.fastForward = TRUE, !.reason = reason, !.events = Append(@, "fastForward")]

\* VisExecutionSignal.requestFastForward
requestFastForward(sig, reason) ==
    IF sig.fastForward THEN sig
    ELSE [sig EXCEPT !.fastForward = TRUE, !.reason = reason,
                     !.events = Append(@, "fastForward")]

\* The subscribers: the runner's (VisGraphRunner's constructor), one whose
\* callback throws, and one that unsubscribes itself when it is called
\* (waitWithSignal)
Subscribers == {"runner", "thrower", "once"}

\* the listeners left when subscriber l has been called
afterCall(ls, l) == IF l = "once" THEN SelectSeq(ls, LAMBDA x : x # l) ELSE ls

\* an _emit that lets the exception of a listener end the loop
RECURSIVE emitAbortOnThrow(_, _, _, _)
emitAbortOnThrow(acc, todo, event, reason) ==
    IF todo = <<>> THEN acc
    ELSE LET l == Head(todo)
             acc1 == [listeners |-> afterCall(acc.listeners, l),
                      notes |-> [acc.notes EXCEPT ![l] = Append(@, <<event, reason>>)]]
         IN  IF l = "thrower" THEN acc1
             ELSE emitAbortOnThrow(acc1, Tail(todo), event, reason)

\* VisExecutionSignal._emit: calls the listeners in insertion order, catching
\* what a listener throws; acc is [listeners, notes], todo the listeners left
RECURSIVE emit(_, _, _, _)
emit(acc, todo, event, reason) ==
    IF todo = <<>> THEN acc
    ELSE LET l == Head(todo)
             acc1 == [listeners |-> afterCall(acc.listeners, l),
                      notes |-> [acc.notes EXCEPT ![l] = Append(@, <<event, reason>>)]]
         IN  emit(acc1, Tail(todo), event, reason)

\* the waiters left by VisExecutionSignal.cancel: the runner's subscriber
\* calls _resolveAllWaiters when the cancel event is emitted
resolveAllWaiters(sig, ws) == IF sig.cancelled THEN ws ELSE {}

\* the loop over the roots in run(); a root that is not a node of the graph makes
\* _resolveEntityId throw, which ends the loop and leaves the fibers spawned so far
RECURSIVE spawnRoots(_, _, _)
spawnRoots(R, rs, cancelled) ==
    IF rs = <<>> THEN R
    ELSE IF Head(rs) \notin Nodes THEN R
    ELSE spawnRoots(spawnFiber(R, Head(rs), cancelled), Tail(rs), cancelled)

Commit(R) ==
    \E r \in {R} :
        /\ fib' = r.fib
        /\ live' = r.live
        /\ counts' = r.counts
        /\ waiters' = r.waiters
        /\ scope' = r.scope
        /\ invoked' = r.invoked
        /\ emitted' = r.emitted
        /\ child' = r.child
        /\ blackboard' = r.blackboard

----------------------------------------------------------------------------
(* Initial state: a runner that has been constructed and not run *)

EmptyScope == [x \in {} |-> "undef"]

\* no function of the library is called on its own
NoCall == [fn |-> "none"]

\* the default values of the parameters of the nodes (VisParameter defaultValue)
\* and no literal input
DefaultParams == [count |-> 1, defaultCondition |-> FALSE, condition |-> Undefined,
                  shareBlackboard |-> TRUE]

\* `new VisExecutionSignal()`
NewSignal == [cancelled |-> FALSE, fastForward |-> FALSE, reason |-> "undef",
              events |-> <<>>]

\* the runner, its signal and its stores after construction
Constructed ==
    /\ status = "idle"
    /\ signal = NewSignal
    /\ completion = "none"
    /\ fib = <<>>
    /\ live = {}
    /\ counts = [n \in Nodes |-> 0]
    /\ waiters = {}
    /\ scope = EmptyScope
    /\ invoked = [n \in Nodes |-> 0]
    /\ emitted = {}
    /\ child = NoChild
    /\ runCalls = 0
    /\ cancelCalls = 0
    /\ userCancel = FALSE
    /\ listeners = <<>>
    /\ notes = [l \in Subscribers |-> <<>>]
    /\ sigCalls = [cancel |-> 0, fastForward |-> 0]
    /\ removed = {}
    /\ blackboard = EmptyScope
    /\ fastForwardSet = {}
    /\ fastForwardRules = {}
    /\ ret = [done |-> FALSE]

Init ==
    /\ roots \in RootChoices
    /\ Constructed
    /\ params = DefaultParams
    /\ call = NoCall

----------------------------------------------------------------------------
(* Actions *)

\* a run() that leaves a runner without fibers running
finishIfNoFiberNever(fibers) == [status |-> "running", completion |-> "pending"]

\* run() after the loop over the roots: [status, completion] after
\* `if (this._fibers.size === 0) this._finish("completed")`
finishIfNoFiber(fibers) ==
    IF fibers = {} THEN finish("running", "pending", "completed")
    ELSE [status |-> "running", completion |-> "pending"]

\* a run() without the guard on the status
RunAlways ==
    /\ UNCHANGED <<sigvars, othervars>>
    /\ runCalls' = countCall(runCalls, MaxRunCalls)
    /\ UNCHANGED <<roots, signal, cancelCalls, userCancel>>
    /\ LET R == spawnRoots(RunnerState, roots, signal.cancelled)
           F == finish("running", "pending", "completed")
       IN  /\ Commit(R)
           /\ status' = IF R.live = {} THEN F.status ELSE "running"
           /\ completion' = IF R.live = {} THEN F.completion ELSE "pending"

\* run()
Run ==
    /\ UNCHANGED <<sigvars, othervars>>
    /\ runCalls' = countCall(runCalls, MaxRunCalls)
    /\ UNCHANGED <<roots, signal, cancelCalls, userCancel>>
    /\ IF status # "idle"
       THEN UNCHANGED <<status, completion, fib, live, counts, waiters, scope, invoked,
                        emitted, child, blackboard>>
       ELSE LET R == spawnRoots(RunnerState, roots, signal.cancelled)
                F == finishIfNoFiber(R.live)
            IN  /\ Commit(R)
                /\ status' = F.status
                /\ completion' = F.completion

\* the reason passed by a call of cancel(): "stop" by the first, "again" by the others
cancelReason(calls) == IF calls = 0 THEN "stop" ELSE "again"

\* a cancel(reason) that latches the signal and never finishes the run
CancelLatchOnly ==
    /\ UNCHANGED <<sigvars, othervars>>
    /\ cancelCalls' = countCall(cancelCalls, MaxCancelCalls)
    /\ UNCHANGED <<roots, live, counts, scope, invoked, emitted, child, blackboard, runCalls>>
    /\ signal' = signalCancel(signal, cancelReason(cancelCalls))
    /\ fib' = wakeSleepers(fib, signal, signal')
    /\ waiters' = resolveAllWaiters(signal, waiters)
    /\ userCancel' = (userCancel \/ (status = "running" /\ live # {}))
    /\ UNCHANGED <<status, completion>>

\* cancel(reason)
Cancel ==
    /\ UNCHANGED <<sigvars, othervars>>
    /\ cancelCalls' = countCall(cancelCalls, MaxCancelCalls)
    /\ UNCHANGED <<roots, live, counts, scope, invoked, emitted, child, blackboard, runCalls>>
    /\ IF status = "cancelled"
       THEN UNCHANGED <<status, signal, completion, waiters, userCancel, fib>>
       ELSE LET F == finish(status, completion, "cancelled") IN
            /\ signal' = signalCancel(signal, cancelReason(cancelCalls))
            /\ fib' = wakeSleepers(fib, signal, signal')
            /\ waiters' = resolveAllWaiters(signal, waiters)
            /\ status' = IF live = {} THEN F.status ELSE status
            /\ completion' = IF live = {} THEN F.completion ELSE completion
            /\ userCancel' = (userCancel \/ (status = "running" /\ live # {}))

\* the node body of fiber f returns a result: _runFiber resumes after
\* `await this._invokeNode(...)` and runs up to its next await
NodeReturn(f) ==
    /\ UNCHANGED <<sigvars, othervars>>
    /\ fib[f].pc = "invoking"
    /\ \E result \in Settled(fib[f].ready, fib[f].node, child) :
          IF Len(result.waitFor) > 0
          THEN LET w == waitForNodes(RunnerState, f, result.waitFor, result.waitForNext, 1) IN
               IF w.thrown
               THEN LET R1 == markNodeCompleted(w.R, fib[f].node) IN
                    Commit([R1 EXCEPT !.fib[f].pc = "threw", !.fib[f].failed = TRUE,
                                      !.fib[f].res = result, !.fib[f].base = counts])
               ELSE Commit([w.R EXCEPT !.fib[f].pc = "waiting", !.fib[f].res = result,
                                       !.fib[f].base = counts])
          ELSE LET R0 == IF fib[f].node \in Subgraphs
                         THEN [RunnerState EXCEPT !.child.yield = result.status]
                         ELSE RunnerState
               IN  Commit(applyAndRoute(R0, f, result, signal.cancelled))
    /\ UNCHANGED <<roots, status, signal, completion, runCalls, cancelCalls, userCancel>>

\* the node body of fiber f throws: the await outside the try block rethrows
NodeThrow(f) ==
    /\ UNCHANGED <<sigvars, othervars>>
    /\ fib[f].pc = "invoking"
    /\ fib[f].node \in Throwing
    /\ fib' = [fib EXCEPT ![f].pc = "threw", ![f].failed = TRUE]
    /\ UNCHANGED <<roots, status, signal, completion, live, counts, waiters, scope,
                   invoked, emitted, child, blackboard, runCalls, cancelCalls, userCancel>>

\* a resume after the wait that applies and routes whether or not the signal
\* is cancelled
WaitResumeRoutes(f) ==
    /\ UNCHANGED <<sigvars, othervars>>
    /\ fib[f].pc = "waiting"
    /\ ~\E w \in waiters : w.fiber = f
    /\ Commit(applyAndRoute(RunnerState, f, fib[f].res, signal.cancelled))
    /\ UNCHANGED <<roots, status, signal, completion, runCalls, cancelCalls, userCancel>>

\* every promise fiber f waits for has been resolved: _runFiber resumes
\* after `await this._waitForNodes(...)`
WaitResume(f) ==
    /\ UNCHANGED <<sigvars, othervars>>
    /\ fib[f].pc = "waiting"
    /\ ~\E w \in waiters : w.fiber = f
    /\ IF signal.cancelled
       THEN LET R1 == markNodeCompleted(RunnerState, fib[f].node) IN
            Commit([R1 EXCEPT !.fib[f].pc = "returned", !.fib[f].node = "none",
                              !.fib[f].res = NoResult, !.fib[f].base = ZeroCounts])
       ELSE Commit(applyAndRoute(RunnerState, f, fib[f].res, signal.cancelled))
    /\ UNCHANGED <<roots, status, signal, completion, runCalls, cancelCalls, userCancel>>

\* a resume that does not await the forks
RouteResumeNoWait(f) ==
    /\ UNCHANGED <<sigvars, othervars>>
    /\ fib[f].pc = "routing"
    /\ LET R1 == markNodeCompleted(RunnerState, fib[f].node)
       IN  Commit(runFiber(R1, f, signal.cancelled))
    /\ UNCHANGED <<roots, status, signal, completion, runCalls, cancelCalls, userCancel>>

\* every awaited fork of fiber f has settled: _runFiber resumes after
\* `await this._routeTransitions(...)`, runs the finally block and loops
RouteResume(f) ==
    /\ UNCHANGED <<sigvars, othervars>>
    /\ fib[f].pc = "routing"
    /\ \A c \in fib[f].awaiting : fib[c].pc = "done"
    /\ LET R1 == markNodeCompleted(RunnerState, fib[f].node)
       IN  Commit(runFiber(R1, f, signal.cancelled))
    /\ UNCHANGED <<roots, status, signal, completion, runCalls, cancelCalls, userCancel>>

\* a catch callback that cancels the signal and leaves the status alone
CatchKeepStatus(f) ==
    /\ UNCHANGED <<sigvars, othervars>>
    /\ fib[f].pc = "threw"
    /\ fib' = wakeSleepers([fib EXCEPT ![f].pc = "caught"], signal, signalCancel(signal, "error"))
    /\ signal' = signalCancel(signal, "error")
    /\ waiters' = resolveAllWaiters(signal, waiters)
    /\ UNCHANGED <<roots, status, completion, live, counts, scope, invoked, emitted,
                   child, blackboard, runCalls, cancelCalls, userCancel>>

\* the catch callback of _spawnFiber
Catch(f) ==
    /\ UNCHANGED <<sigvars, othervars>>
    /\ fib[f].pc = "threw"
    /\ fib' = wakeSleepers([fib EXCEPT ![f].pc = "caught"], signal, signalCancel(signal, "error"))
    /\ status' = "failed"
    /\ signal' = signalCancel(signal, "error")
    /\ waiters' = resolveAllWaiters(signal, waiters)
    /\ UNCHANGED <<roots, completion, live, counts, scope, invoked, emitted, child, blackboard,
                   runCalls, cancelCalls, userCancel>>

\* the state chosen by the finally callback of _spawnFiber
finalState(cancelled, st) ==
    IF cancelled THEN "cancelled" ELSE IF st = "failed" THEN "failed" ELSE "completed"

\* the finally callback of _spawnFiber
Finally(f) ==
    /\ UNCHANGED <<sigvars, othervars>>
    /\ fib[f].pc \in {"returned", "caught"}
    /\ fib' = [fib EXCEPT ![f].pc = "done"]
    /\ live' = live \ {f}
    /\ LET F == finish(status, completion, finalState(signal.cancelled, status)) IN
       /\ status' = IF live' = {} THEN F.status ELSE status
       /\ completion' = IF live' = {} THEN F.completion ELSE completion
    /\ UNCHANGED <<roots, signal, counts, waiters, scope, invoked, emitted, child, blackboard,
                   runCalls, cancelCalls, userCancel>>

\* what a step of the child runner leaves alone
ChildFrame ==
    UNCHANGED <<roots, status, signal, completion, fib, live, counts, waiters, invoked,
                runCalls, cancelCalls, userCancel, listeners, notes, sigCalls, removed,
                blackboard, othervars>>

\* the node of the child graph in flight returns a result: the child's
\* _runFiber applies the outputs to the scope it shares with the parent and
\* routes the default transition, whose targets are already in child.queue
ChildNodeReturn ==
    /\ child.pc = "invoking"
    /\ \E result \in ChildResults :
          /\ child' = [child EXCEPT !.pc = "routing", !.result = result.status]
          /\ scope' = applyOutputs(scope, child.node, result.outputs)
          /\ emitted' = emitted \cup definedPins(child.node, result.outputs)
    /\ ChildFrame

\* the node of the child graph in flight throws
ChildNodeThrow ==
    /\ child.pc = "invoking"
    /\ child' = [child EXCEPT !.pc = "threw"]
    /\ UNCHANGED <<scope, emitted>>
    /\ ChildFrame

\* the child's _runFiber resumes after `await this._routeTransitions(...)`: it
\* invokes the next node of its queue unless the child runner's own signal is
\* cancelled, and leaves its loop when the queue is empty
ChildRouteResume ==
    /\ child.pc = "routing"
    /\ child' = IF LoopGuard(child.cancelled, child.queue)
                THEN [child EXCEPT !.pc = "invoking", !.node = Head(child.queue),
                                   !.queue = Tail(child.queue), !.invoked = @ + 1]
                ELSE [child EXCEPT !.pc = "returned", !.node = "none"]
    /\ UNCHANGED <<scope, emitted>>
    /\ ChildFrame

\* the catch callback of the child's _spawnFiber
ChildCatch ==
    /\ child.pc = "threw"
    /\ child' = [child EXCEPT !.pc = "caught", !.status = "failed", !.cancelled = TRUE]
    /\ UNCHANGED <<scope, emitted>>
    /\ ChildFrame

\* the finally callback of the child's _spawnFiber: its only fiber has settled
ChildFinally ==
    /\ child.pc \in {"returned", "caught"}
    /\ LET F == finish(child.status, child.completion,
                       finalState(child.cancelled, child.status))
       IN  child' = [child EXCEPT !.pc = "done", !.status = F.status,
                                  !.completion = F.completion]
    /\ UNCHANGED <<scope, emitted>>
    /\ ChildFrame

Fibers == 1..Len(fib)

Next ==
    \/ Run
    \/ Cancel
    \/ \E f \in Fibers : NodeReturn(f)
    \/ \E f \in Fibers : NodeThrow(f)
    \/ \E f \in Fibers : WaitResume(f)
    \/ \E f \in Fibers : RouteResume(f)
    \/ \E f \in Fibers : Catch(f)
    \/ \E f \in Fibers : Finally(f)
    \/ ChildNodeReturn
    \/ ChildNodeThrow
    \/ ChildRouteResume
    \/ ChildCatch
    \/ ChildFinally

Spec == Init /\ [][Next]_vars

TypeOK ==
    /\ status \in {"idle", "running"} \cup Terminal
    /\ completion \in {"none", "pending", "resolved"}
    /\ live \subseteq Fibers
    /\ \A f \in Fibers : fib[f].pc \in {"invoking", "waiting", "routing", "threw",
                                        "returned", "caught", "done"}

\* a step of some fiber, of the runner or of the child runner: a node body
\* returning or throwing, or a resumed continuation
FiberStep ==
    \/ \E f \in Fibers : \/ NodeReturn(f) \/ NodeThrow(f) \/ WaitResume(f)
                         \/ RouteResume(f) \/ Catch(f) \/ Finally(f)
    \/ ChildNodeReturn \/ ChildNodeThrow \/ ChildRouteResume \/ ChildCatch \/ ChildFinally

\* Every node body in flight eventually returns or throws, and the event loop
\* eventually runs every continuation that is ready.
FairSpec == Spec /\ WF_vars(FiberStep)

----------------------------------------------------------------------------
(* The runner on the graph of the Loop node, whose count is a parameter:   *)
(*   St --next-> L --body-> I --next-> L,  L --complete-> E                 *)

MaxCount == 3

LoopInit ==
    /\ roots = <<"St">>
    /\ Constructed
    /\ params \in {[DefaultParams EXCEPT !.count = n] : n \in 0..MaxCount}
    /\ call = NoCall

LoopNext ==
    \/ Run
    \/ Cancel
    \/ \E f \in Fibers : NodeReturn(f)
    \/ \E f \in Fibers : RouteResume(f)
    \/ \E f \in Fibers : Finally(f)

LoopSpec == LoopInit /\ [][LoopNext]_vars

----------------------------------------------------------------------------
(* The runner on the graph of the join that waits for the node that forked *)
(* it:   Fk --fork-> Jn                                                    *)

ForkInit ==
    /\ roots = <<"Fk">>
    /\ Constructed
    /\ params = DefaultParams
    /\ call = NoCall

ForkNext ==
    \/ Run
    \/ Cancel
    \/ \E f \in Fibers : NodeReturn(f)
    \/ \E f \in Fibers : WaitResume(f)
    \/ \E f \in Fibers : RouteResume(f)
    \/ \E f \in Fibers : Finally(f)

ForkSpec == ForkInit /\ [][ForkNext]_vars

----------------------------------------------------------------------------
(* The runner on the graph of the Run Subgraph node Gq, whose child graph  *)
(* is the chain K --next-> K2                                              *)

SubgraphInit ==
    /\ roots = <<"Gq">>
    /\ Constructed
    /\ params = DefaultParams
    /\ call = NoCall

SubgraphNext ==
    \/ Run
    \/ Cancel
    \/ \E f \in Fibers : NodeReturn(f)
    \/ \E f \in Fibers : RouteResume(f)
    \/ \E f \in Fibers : Finally(f)
    \/ ChildNodeReturn
    \/ ChildNodeThrow
    \/ ChildRouteResume
    \/ ChildCatch
    \/ ChildFinally

SubgraphSpec == SubgraphInit /\ [][SubgraphNext]_vars

----------------------------------------------------------------------------
(* The sequencer component on the graph of the Loop node: play() starts a  *)
(* run on a new runner after stopping the current one, stop() cancels the  *)
(* current run. The steps a stopped runner still takes are left out: they  *)
(* invoke no node and touch neither the new runner nor the blackboard.     *)

SequencerInit ==
    /\ roots = <<"St">>
    /\ Constructed
    /\ params \in {[DefaultParams EXCEPT !.count = n, !.shareBlackboard = b] :
                      n \in 0..MaxCount, b \in BOOLEAN}
    /\ call = NoCall

\* the runner _startRun constructs: a new scope and a new signal, and the
\* sequencer's blackboard unless shareBlackboard is false
newRunner(bb, share) ==
    [fib |-> <<>>, live |-> {}, counts |-> ZeroCounts, waiters |-> {},
     scope |-> EmptyScope, invoked |-> ZeroCounts, emitted |-> {}, child |-> NoChild,
     blackboard |-> IF share THEN bb ELSE EmptyScope,
     signal |-> NewSignal]

\* VisSequencerComponent.play(): _startRun stops the current run, constructs
\* a runner and calls run()
Play ==
    /\ runCalls < MaxRunCalls
    /\ runCalls' = runCalls + 1
    /\ signal' = NewSignal
    /\ userCancel' = FALSE
    /\ LET R == spawnRoots(newRunner(blackboard, params.shareBlackboard), roots, FALSE)
           F == finishIfNoFiber(R.live)
       IN  /\ Commit(R)
           /\ status' = F.status
           /\ completion' = F.completion
    /\ UNCHANGED <<roots, cancelCalls, sigvars, othervars>>

\* VisSequencerComponent.stop(): cancels the current handle, which is set
\* while the run has neither completed nor been stopped
Stop ==
    /\ status = "running"
    /\ ~signal.cancelled
    /\ Cancel

SequencerNext ==
    \/ Play
    \/ Stop
    \/ \E f \in Fibers : NodeReturn(f)
    \/ \E f \in Fibers : RouteResume(f)
    \/ \E f \in Fibers : Finally(f)

SequencerSpec == SequencerInit /\ [][SequencerNext]_vars

----------------------------------------------------------------------------
(* The runner on the graphs of the Branch node, of the Delay node and of   *)
(* the node M, with the calls that fast-forward: fastForwardNode and       *)
(* fastForwardWhere of the runner, requestFastForward of the signal.       *)

\* the literal values of the input condition of Br
Conditions == {Undefined, Boolean(TRUE), Boolean(FALSE),
               [type |-> "number", number |-> 0], [type |-> "string", string |-> "x"]}

\* the node ids a caller passes to fastForwardNode
FastForwardIds == {"Br", "Dl"}

ControlInit ==
    /\ roots \in {<<"Br">>, <<"Dl">>, <<"X">>}
    /\ Constructed
    /\ params \in {[DefaultParams EXCEPT !.condition = c, !.defaultCondition = d] :
                      c \in Conditions, d \in BOOLEAN}
    /\ call = NoCall

\* what a call that fast-forwards leaves alone
ControlFrame ==
    UNCHANGED <<roots, status, completion, live, counts, waiters, scope, invoked, emitted,
                child, runCalls, cancelCalls, userCancel, sigvars, blackboard, params,
                call, ret>>

\* fastForwardNode(nodeId)
FastForwardNode(nodeId) ==
    /\ fastForwardSet' = fastForwardSet \cup {nodeId}
    /\ UNCHANGED <<fastForwardRules, signal, fib>>
    /\ ControlFrame

\* fastForwardWhere(rule)
FastForwardWhere(rule) ==
    /\ fastForwardRules' = fastForwardRules \cup {rule}
    /\ UNCHANGED <<fastForwardSet, signal, fib>>
    /\ ControlFrame

\* a holder of the context's signal calls requestFastForward; the event wakes
\* the Delay bodies that sleep
ContextFastForward ==
    /\ signal' = requestFastForward(signal, "skip")
    /\ fib' = wakeSleepers(fib, signal, signal')
    /\ UNCHANGED <<fastForwardSet, fastForwardRules>>
    /\ ControlFrame

\* the timer of waitWithSignal expires for the Delay body of fiber f, which runs on
TimerExpires(f) ==
    /\ fib[f].ready = Sleeping
    /\ fib' = [fib EXCEPT ![f].ready = delayResume(signal)]
    /\ UNCHANGED <<fastForwardSet, fastForwardRules, signal>>
    /\ ControlFrame

ControlNext ==
    \/ Run
    \/ Cancel
    \/ \E nodeId \in FastForwardIds : FastForwardNode(nodeId)
    \/ \E rule \in Rules : FastForwardWhere(rule)
    \/ ContextFastForward
    \/ \E f \in Fibers : TimerExpires(f)
    \/ \E f \in Fibers : NodeReturn(f)
    \/ \E f \in Fibers : RouteResume(f)
    \/ \E f \in Fibers : Finally(f)

ControlSpec == ControlInit /\ [][ControlNext]_vars

----------------------------------------------------------------------------
(* The runner on the graph of the Loop node with the calls that            *)
(* fast-forward the loop. A fiber invokes at most MaxSteps nodes.          *)

MaxSteps == 9

FastLoopNext ==
    \/ Run
    \/ FastForwardNode("L")
    \/ FastForwardWhere("loops")
    \/ ContextFastForward
    \/ \E f \in Fibers : NodeReturn(f)
    \/ \E f \in Fibers : Len(fib[f].log) < MaxSteps /\ RouteResume(f)
    \/ \E f \in Fibers : Finally(f)

FastLoopSpec == LoopInit /\ [][FastLoopNext]_vars

----------------------------------------------------------------------------
(* The execution signal on its own, with its subscribers: the flags are set *)
(* by direct calls of cancel and requestFastForward.                        *)

Reasons == {"r1", "r2"}

Range(seq) == {seq[i] : i \in 1..Len(seq)}

\* subscribe(listener): Set.add keeps the place of a listener already present
Subscribe(l) ==
    /\ listeners' = IF l \in Range(listeners) THEN listeners ELSE Append(listeners, l)
    /\ UNCHANGED <<signal, notes, sigCalls, removed>>
    /\ UNCHANGED runnervars

\* the token returned by subscribe(listener) is called
Unsubscribe(l) ==
    /\ listeners' = SelectSeq(listeners, LAMBDA x : x # l)
    /\ removed' = IF l \in Range(listeners) THEN removed \cup {l} ELSE removed
    /\ UNCHANGED <<signal, notes, sigCalls>>
    /\ UNCHANGED runnervars

\* the listeners and notes after a call that took the signal from sig to sig1:
\* _emit runs when the call emitted an event
emitted1(sig, sig1) ==
    IF Len(sig1.events) > Len(sig.events)
    THEN emit([listeners |-> listeners, notes |-> notes], listeners,
              sig1.events[Len(sig1.events)], sig1.reason)
    ELSE [listeners |-> listeners, notes |-> notes]

\* signal.cancel(reason)
SignalCancel(reason) ==
    /\ sigCalls' = [sigCalls EXCEPT !.cancel = countCall(@, MaxSignalCalls)]
    /\ signal' = signalCancel(signal, reason)
    /\ listeners' = emitted1(signal, signal').listeners
    /\ notes' = emitted1(signal, signal').notes
    /\ UNCHANGED removed
    /\ UNCHANGED runnervars

\* signal.requestFastForward(reason)
RequestFastForward(reason) ==
    /\ sigCalls' = [sigCalls EXCEPT !.fastForward = countCall(@, MaxSignalCalls)]
    /\ signal' = requestFastForward(signal, reason)
    /\ listeners' = emitted1(signal, signal').listeners
    /\ notes' = emitted1(signal, signal').notes
    /\ UNCHANGED removed
    /\ UNCHANGED runnervars

SignalNext ==
    \/ \E l \in Subscribers : Subscribe(l)
    \/ \E l \in Subscribers : Unsubscribe(l)
    \/ \E reason \in Reasons : SignalCancel(reason)
    \/ \E reason \in Reasons : RequestFastForward(reason)

\* a runner that has been constructed for a graph without roots
SignalInit == roots = <<>> /\ Init

SignalSpec == SignalInit /\ [][SignalNext]_vars

----------------------------------------------------------------------------
(* Functions of the library called on their own: VisGraph._resolveRoots,   *)
(* VisGraph.buildInputs, VisRuntimeNode.execute and                        *)
(* VisGraphRunner._normalizeTransitions.                                   *)

\* VisGraph._resolveRoots; asset.root is the list of the roots the asset
\* names, empty when it names none
resolveRoots(asset) ==
    IF asset.root # <<>> THEN asset.root
    ELSE LET incoming == {asset.connections[i].to : i \in 1..Len(asset.connections)}
             found == SelectSeq(asset.nodes, LAMBDA id : id \notin incoming)
         IN  IF Len(found) > 0 THEN found
             ELSE IF Len(asset.nodes) > 0 THEN <<asset.nodes[1]>> ELSE <<>>

MaxConnections == 2
MaxSources == 2

NodeIds == {"n1", "n2"}
Connections == [kind : {"flow", "data"}, from : NodeIds, to : NodeIds]

SeqsUpTo(S, n) == UNION {[1..k -> S] : k \in 0..n}

\* partial functions from D to R
Partial(D, R) == UNION {[X -> R] : X \in SUBSET D}

RootsCalls ==
    [fn : {"resolveRoots"},
     asset : [root : {<<>>, <<"n2">>, <<"n2", "n1">>},
              nodes : {<<>>, <<"n1">>, <<"n1", "n2">>, <<"n2", "n1">>},
              connections : SeqsUpTo(Connections, MaxConnections)]]

SourceKeys == {makeScopeKey("n1", "out"), makeScopeKey("n2", "out")}

InputsCalls ==
    [fn : {"buildInputs"},
     literalInputs : Partial({"p", "q"}, {"literal"}),
     binding : Partial({"p"}, SeqsUpTo(SourceKeys, MaxSources) \ {<<>>}),
     scope : Partial(SourceKeys, {"undef", "v1", "v2"})]

HookResults == {NoResult, [NoResult EXCEPT !.transitions = NextPin], failure("x"), skipped}

ExecuteCalls ==
    [fn : {"execute"},
     signal : [cancelled : BOOLEAN, fastForward : BOOLEAN],
     onExecute : HookResults,
     onFastForward : HookResults]

\* the transitions a result can carry: on a pin with a declared strategy or
\* on one without, with or without a strategy of their own
Transitions ==
    [pinId : {"par", "next"}, strategy : {"undef", "sequential", "parallel"},
     awaitCompletion : {"undef"}]

MaxTransitions == 2

\* the calls of _normalizeTransitions: for a node without defaultOutput (S) and
\* for one with (B), a result whose transitions field is absent (set = FALSE)
\* or an array (set = TRUE), which may be empty. The code's test
\* `transitions && transitions.length` fails for the absent field and for the
\* empty array alike, which is why both are the empty sequence.
TransitionsCalls ==
    {c \in [fn : {"normalizeTransitions"}, nodeId : {"S", "B"}, set : BOOLEAN,
            transitions : SeqsUpTo(Transitions, MaxTransitions)] :
        c.set \/ c.transitions = <<>>}

LibraryInit ==
    /\ roots = <<>>
    /\ Constructed
    /\ params = DefaultParams
    /\ call \in RootsCalls \cup InputsCalls \cup ExecuteCalls \cup TransitionsCalls

\* what a call of a function of the library leaves alone
LibraryFrame ==
    UNCHANGED <<roots, status, signal, completion, fib, live, counts, waiters, scope,
                invoked, emitted, child, runCalls, cancelCalls, userCancel,
                listeners, notes, sigCalls, removed,
                blackboard, fastForwardSet, fastForwardRules, params, call>>

ResolveRoots ==
    /\ call.fn = "resolveRoots"
    /\ ~ret.done
    /\ ret' = [done |-> TRUE, value |-> resolveRoots(call.asset)]
    /\ LibraryFrame

BuildInputs ==
    /\ call.fn = "buildInputs"
    /\ ~ret.done
    /\ ret' = [done |-> TRUE,
               value |-> buildInputs(call.literalInputs, call.binding, call.scope)]
    /\ LibraryFrame

Execute ==
    /\ call.fn = "execute"
    /\ ~ret.done
    /\ ret' = [done |-> TRUE,
               value |-> execute(call.signal, call.onExecute, call.onFastForward)]
    /\ LibraryFrame

NormalizeTransitions ==
    /\ call.fn = "normalizeTransitions"
    /\ ~ret.done
    /\ ret' = [done |-> TRUE, value |-> normalizeTransitions(call.nodeId, call.transitions)]
    /\ LibraryFrame

LibraryNext == ResolveRoots \/ BuildInputs \/ Execute \/ NormalizeTransitions

LibrarySpec == LibraryInit /\ [][LibraryNext]_vars

----------------------------------------------------------------------------
(* Properties *)

AnyThrew == \E f \in Fibers : fib[f].failed

\* C1: once the signal's cancelled flag is set, no step begins an invocation
\* of a node, in any fiber and whatever the fiber queues hold.
C1_NoInvocationAfterCancel == [][signal.cancelled => (invoked' = invoked)]_vars

\* C1 witness: a fiber forked after the cancel has settled without invoking
\* the node in its queue.
C1_Witness ==
    /\ signal.cancelled
    /\ \E f \in Fibers : fib[f].log = <<>> /\ fib[f].queue # <<>> /\ fib[f].pc = "done"

\* C2: whenever the signal is cancelled, the waiter map holds no unresolved waiter.
C2_NoWaiterWhenCancelled == signal.cancelled => waiters = {}

\* C3: after cancel() on a running runner, the runner eventually reaches a
\* terminal state with every fiber settled and the completion promise resolved.
C3_CancelTerminates ==
    userCancel ~> (status \in Terminal /\ live = {} /\ completion = "resolved")

\* C4: once the status is a terminal state, no step changes it.
C4_TerminalSticky == [][(status \in Terminal) => (status' = status)]_vars

\* C4 witness: the last fiber settled (calling _finish with "cancelled") after a
\* fiber had thrown, and cancel() and run() were called again afterwards.
C4_Witness ==
    /\ status = "failed"
    /\ live = {}
    /\ AnyThrew
    /\ cancelCalls > 0
    /\ runCalls > 1

\* C5: if any fiber threw during the run, a terminal status is "failed".
C5_ThrowMeansFailed == (AnyThrew /\ status \in Terminal) => status = "failed"

\* C5 witness: a run with several fibers, one of which threw, has finished.
C5_Witness ==
    /\ AnyThrew
    /\ live = {}
    /\ completion = "resolved"
    /\ \E f \in Fibers : ~fib[f].failed /\ Len(fib[f].log) > 0

\* The part of C6 that holds in every state: after cancel() on a running
\* runner with a live fiber, and if no fiber throws, the status stays "running"
\* while a fiber is live and is "cancelled" once the last one has settled.
CancelledOnlyWhenLastFiberSettles ==
    (userCancel /\ ~AnyThrew) =>
        /\ live # {} => status = "running"
        /\ live = {} => status = "cancelled"

\* C6: after cancel() on a running runner with a live fiber, and if no fiber
\* throws, the runner finishes in state "cancelled", and not before the last
\* live fiber has settled.
C6_FinishesCancelled ==
    /\ []CancelledOnlyWhenLastFiberSettles
    /\ userCancel ~> (AnyThrew \/ (status = "cancelled" /\ live = {}))

\* C7: when the run has finished, the completion count of every node equals
\* the number of times the node was invoked.
C7_CountsMatchInvocations ==
    (status \in Terminal /\ live = {}) => \A n \in Nodes : counts[n] = invoked[n]

\* C8: a call of run() on a runner that is not idle changes nothing of the run.
C8_RunOnNonIdleIsNoOp ==
    [][(runCalls' # runCalls /\ status # "idle") =>
         UNCHANGED <<status, signal, completion, fib, live, counts, waiters, scope,
                     invoked>>]_vars

\* C8 witness: run() was called again while the first run had a node in flight.
C8_Witness ==
    /\ runCalls = 2
    /\ status = "running"
    /\ \E f \in Fibers : fib[f].pc = "invoking"

\* C9 (as claimed): a fiber invokes its queue entries in the order they were pushed.
C9_InvokedInPushOrder ==
    \A f \in Fibers : \A i, j \in 1..Len(fib[f].log) :
        i < j => fib[f].log[i].seq < fib[f].log[j].seq

\* C9 (amended): entries pushed in the same routing step are invoked in the
\* order they were pushed; the entries of a later routing step are queued
\* ahead of, and so invoked before, the entries still queued from earlier steps.
C9_InvokedInStepOrder ==
    \A f \in Fibers :
        LET lg == fib[f].log
            q == fib[f].queue
        IN  /\ \A i, j \in 1..Len(lg) :
                 (i < j /\ lg[i].step = lg[j].step) => lg[i].seq < lg[j].seq
            /\ \A i, j \in 1..Len(q) :
                 i < j => \/ q[i].step > q[j].step
                          \/ q[i].step = q[j].step /\ q[i].seq < q[j].seq
            /\ \A i \in 1..Len(lg) : \A j \in 1..Len(q) :
                 lg[i].step = q[j].step => lg[i].seq < q[j].seq

\* C9 witness: a fiber invoked S, then B and C of one routing step with the
\* D pushed by B in between.
C9_Witness ==
    \E f \in Fibers :
        /\ Len(fib[f].log) = 4
        /\ fib[f].log[3].step > fib[f].log[4].step

\* C10: a fiber that invokes its next node after a routing step with awaited
\* forks does so only when every one of these forks has settled.
C10_ResumeAfterForks ==
    \A f \in Fibers :
        (fib[f].pc # "routing" /\ fib[f].pc # "threw") =>
            \A c \in fib[f].awaiting : fib[c].pc = "done" /\ c \notin live

\* C10 witness: a fiber has invoked its next node after awaiting two forks.
C10_Witness ==
    \E f \in Fibers :
        /\ fib[f].pc = "invoking"
        /\ Cardinality(fib[f].awaiting) = 2
        /\ Len(fib[f].log) > 1

\* the count node n must have reached for the wait of fiber f to be over
Required(f, n) == IF fib[f].res.waitForNext THEN fib[f].base[n] + 1 ELSE 1

\* the ids named by the waitFor clause fiber f is handling
Named(f) == {fib[f].res.waitFor[k] : k \in 1..Len(fib[f].res.waitFor)}

\* fiber f leaves its wait by applying the outputs and routing the transitions
\* of the result (and not through the cancellation branch)
WaitEndsRouting(f) ==
    /\ fib[f].pc = "waiting"
    /\ fib'[f].pc \in {"routing", "threw"}

\* C11: a fiber whose wait is not ended by cancellation writes the outputs and
\* routes the transitions of the waitFor result only when every named node has
\* reached the required completion count (at least 1 when waitForNext is false).
C11_RoutesAfterAllNamedCompleted ==
    [][\A f \in Fibers :
          WaitEndsRouting(f) =>
              /\ ~signal.cancelled
              /\ \A n \in Named(f) : counts[n] >= Required(f, n)
              /\ \A out \in {fib[f].res.outputs[i] : i \in 1..Len(fib[f].res.outputs)} :
                     scope'[makeScopeKey(fib[f].node, out[1])] = out[2]]_vars

\* C11 witness: the join W waited for A and D, both have completed, and W has
\* written its output.
C11_Witness ==
    /\ makeScopeKey("W", "nodes") \in DOMAIN scope
    /\ scope[makeScopeKey("W", "nodes")] = "A,D"
    /\ counts["A"] >= 1
    /\ counts["D"] >= 1

\* C12: a wait with waitForNext false records no waiter for a named node whose
\* completion count was already 1 or more; when that is so for every named
\* node the fiber has nothing to wait for and goes on.
C12_NoWaiterWhenAlreadyCompleted ==
    \A f \in Fibers :
        (fib[f].pc = "waiting" /\ ~fib[f].res.waitForNext) =>
            \A w \in waiters : w.fiber = f => fib[f].base[w.node] = 0

\* C12 witness: W returned a wait for D (waitForNext false) after D had
\* completed; no waiter was recorded and the fiber is ready to resume.
C12_Witness ==
    \E f \in Fibers :
        /\ fib[f].pc = "waiting"
        /\ ~fib[f].res.waitForNext
        /\ Named(f) = {"D"}
        /\ fib[f].base["D"] >= 1
        /\ ~\E w \in waiters : w.fiber = f
        /\ ~signal.cancelled

\* C13: absent cancellation, a fiber waiting with waitForNext true holds, for
\* every named node that has not completed since the registration, a waiter
\* whose target is the count at registration plus one, so it cannot resume.
C13_WaitForNextNeedsLaterCompletion ==
    \A f \in Fibers :
        (fib[f].pc = "waiting" /\ fib[f].res.waitForNext /\ ~signal.cancelled) =>
            \A n \in Named(f) :
                counts[n] <= fib[f].base[n] =>
                    \E w \in waiters : /\ w.fiber = f
                                        /\ w.node = n
                                        /\ w.targetCount = fib[f].base[n] + 1

\* C13 witness: W began a wait for the next completion of A after A had
\* completed once, and is suspended on a waiter with target 2.
C13_Witness ==
    \E f \in Fibers :
        /\ fib[f].pc = "waiting"
        /\ fib[f].res.waitForNext
        /\ fib[f].base["A"] = 1
        /\ counts["A"] = 1
        /\ \E w \in waiters : w.fiber = f /\ w.node = "A" /\ w.targetCount = 2

\* fiber f threw because its waitFor clause names an id that is no node of the graph
ThrewOnUnknownId(f) ==
    /\ fib[f].failed
    /\ \E n \in Named(f) : n \notin Nodes

\* C14: an unknown id in a waitFor clause fails the lookup before the wait
\* begins: the fiber throws, no waiter is registered for any id of the list,
\* and the run ends "failed".
C14_UnknownIdRegistersNoWaiter ==
    \A f \in Fibers :
        ThrewOnUnknownId(f) =>
            /\ ~\E w \in waiters : w.fiber = f
            /\ status \in Terminal => status = "failed"

\* C15: the keys of the scope snapshot are exactly the <<nodeId, pinId>> pairs
\* for which some node emitted an output with a defined value: no key for a pin
\* whose emitted value was undefined, a key for every pin emitted defined.
C15_ScopeKeysAreDefinedOutputs ==
    DOMAIN scope = {makeScopeKey(e[1], e[2]) : e \in emitted}

\* C16: when the sole node of the child graph returned a failure result, the
\* Run Subgraph node (awaitCompletion true) that ran the child yields a
\* failure status.
C16_ChildFailureYieldsFailure ==
    (child.result = "failure" /\ child.yield # "none") => child.yield = "failure"

\* C17: a Run Subgraph node that yielded a failure status does not route its
\* next pin: the target H is neither enqueued nor invoked, the scope lacks H's
\* value, and the parent run, if not cancelled, ends "completed".
C17_FailureDoesNotRouteNext ==
    child.yield = "failure" =>
        /\ invoked["H"] = 0
        /\ \A f \in Fibers : \A i \in 1..Len(fib[f].queue) : fib[f].queue[i].nodeId # "H"
        /\ makeScopeKey("H", "out") \notin DOMAIN scope
        /\ (status \in Terminal /\ cancelCalls = 0) => status = "completed"

SignalEvents == {"cancel", "fastForward"}

\* the flag of the signal that event e announces
flag(sig, e) == IF e = "cancel" THEN sig.cancelled ELSE sig.fastForward

\* the number of times event e is among the calls a subscriber received
CountOf(received, e) == Cardinality({i \in 1..Len(received) : received[i][1] = e})

\* this step is a call of the method that sets the flag of event e
SetCalled(e) ==
    IF e = "cancel" THEN sigCalls'.cancel # sigCalls.cancel
    ELSE sigCalls'.fastForward # sigCalls.fastForward

\* C18: the flags cancelled and fastForward are one-shot latches: a flag that
\* is set stays set, the step that sets it calls each current subscriber
\* exactly once with its event, no later step delivers that event again, and
\* a second set of the flag changes nothing (no event, same reason).
C18_FlagsAreOneShotLatches ==
    [][\A e \in SignalEvents :
          /\ flag(signal, e) => flag(signal', e)
          /\ (~flag(signal, e) /\ flag(signal', e)) =>
                 \A l \in Range(listeners) : CountOf(notes'[l], e) = CountOf(notes[l], e) + 1
          /\ flag(signal, e) =>
                 \A l \in Subscribers : CountOf(notes'[l], e) = CountOf(notes[l], e)
          /\ (flag(signal, e) /\ SetCalled(e)) => UNCHANGED <<signal, notes, listeners>>]_vars

\* C18 witness: both flags were set twice and a subscriber has received each
\* event once.
C18_Witness ==
    /\ sigCalls.cancel = 2
    /\ sigCalls.fastForward = 2
    /\ signal.cancelled
    /\ signal.fastForward
    /\ \E l \in Subscribers : CountOf(notes[l], "cancel") = 1 /\ CountOf(notes[l], "fastForward") = 1

\* C19: a second call of the runner's cancel(reason), in any state, changes
\* neither the status, nor the signal's flags and reason, nor the waiters, and
\* emits no further cancel event.
C19_SecondCancelIsNoOp ==
    [][(cancelCalls' # cancelCalls /\ cancelCalls >= 1) =>
          UNCHANGED <<status, signal, completion, waiters>>]_vars

\* C19 witness: cancel("again") was called after cancel("stop") on a running
\* runner that has a fiber suspended on a waiter.
C19_Witness ==
    /\ cancelCalls = 2
    /\ status = "running"
    /\ waiters # {}
    /\ signal.reason = "stop"
    /\ signal.events = <<"cancel">>

\* C20: on the step that sets a flag, every subscriber registered at that time
\* is called with the event, whether or not a subscriber called before it
\* threw, a subscriber that is not registered (its token was called) is not,
\* and the flag is set.
C20_ThrowDoesNotAbortEmission ==
    [][Len(signal'.events) > Len(signal.events) =>
          LET e == signal'.events[Len(signal'.events)] IN
          /\ flag(signal', e)
          /\ \A l \in Subscribers :
                 notes'[l] = IF l \in Range(listeners)
                             THEN Append(notes[l], <<e, signal'.reason>>)
                             ELSE notes[l]]_vars

\* C20 witness: with the throwing subscriber registered ahead of the runner's,
\* both have received both events; the third subscriber, whose token was
\* called, has received none.
C20_Witness ==
    /\ listeners = <<"thrower", "runner">>
    /\ Len(notes["thrower"]) = 2
    /\ Len(notes["runner"]) = 2
    /\ "once" \in removed
    /\ notes["once"] = <<>>

\* awaitCompletion() returns a promise that resolves now: there is no
\* completion promise, or it is resolved
awaitCompletionResolves == completion # "pending"

\* C28: run() on an idle runner whose graph has no root leaves the status
\* "completed", spawns no fiber, invokes no node, and awaitCompletion() is resolved.
C28_ZeroRootsCompletes ==
    [][(runCalls' # runCalls /\ status = "idle" /\ roots = <<>>) =>
          /\ status' = "completed"
          /\ fib' = <<>> /\ live' = {}
          /\ invoked' = invoked
          /\ awaitCompletionResolves']_vars

\* C28 witness: a graph without roots has been run and is completed.
C28_Witness ==
    /\ roots = <<>>
    /\ runCalls >= 1
    /\ cancelCalls = 0
    /\ status = "completed"
    /\ completion = "resolved"

\* C29: cancel() on an idle runner makes the status "cancelled" at once; a
\* later run() on that runner spawns no fiber and invokes no node, and
\* awaitCompletion() resolves.
C29_CancelOnIdle ==
    [][/\ (cancelCalls' # cancelCalls /\ status = "idle") =>
             (status' = "cancelled" /\ fib' = <<>> /\ awaitCompletionResolves')
       /\ (runCalls' # runCalls /\ status = "cancelled" /\ fib = <<>>) =>
             /\ status' = "cancelled"
             /\ fib' = <<>> /\ live' = {}
             /\ invoked' = invoked
             /\ awaitCompletionResolves']_vars

\* C29 witness: a runner whose graph has roots was cancelled before it was
\* run, and run() was called on it afterwards.
C29_Witness ==
    /\ roots # <<>>
    /\ status = "cancelled"
    /\ fib = <<>>
    /\ runCalls >= 1
    /\ \A n \in Nodes : invoked[n] = 0
    /\ awaitCompletionResolves

\* C21: execute dispatches on the signal, cancellation first: cancelled gives
\* a skipped result without transitions and calls no hook; else fastForward
\* gives the result of onFastForward and does not call _onExecute; else the
\* result of _onExecute.
C21_ExecuteDispatch ==
    (call.fn = "execute" /\ ret.done) =>
        /\ call.signal.cancelled =>
               /\ ret.value.result.status = "skipped"
               /\ ret.value.result.transitions = <<>>
               /\ ret.value.called = {}
        /\ (~call.signal.cancelled /\ call.signal.fastForward) =>
               /\ ret.value.result = call.onFastForward
               /\ ret.value.called = {"onFastForward"}
        /\ (~call.signal.cancelled /\ ~call.signal.fastForward) =>
               /\ ret.value.result = call.onExecute
               /\ ret.value.called = {"_onExecute"}

\* C21 witness: execute has returned on a signal with both flags set, for a
\* node whose onFastForward would have routed next.
C21_Witness ==
    /\ call.fn = "execute"
    /\ ret.done
    /\ call.signal.cancelled
    /\ call.signal.fastForward
    /\ call.onFastForward.transitions # <<>>

\* C26: when the asset names no root, the roots are the nodes without an
\* inbound flow connection (data connections do not count), in asset node
\* order; when there is no such node, the first node; without nodes, none.
C26_RootsHaveNoInboundFlow ==
    (call.fn = "resolveRoots" /\ ret.done /\ call.asset.root = <<>>) =>
        LET conns == call.asset.connections
            inboundFlow == {conns[i].to : i \in {j \in 1..Len(conns) : conns[j].kind = "flow"}}
            free == SelectSeq(call.asset.nodes, LAMBDA id : id \notin inboundFlow)
        IN  ret.value = IF Len(free) > 0 THEN free
                        ELSE IF Len(call.asset.nodes) > 0 THEN <<call.asset.nodes[1]>>
                        ELSE <<>>

\* the literal value of a pin in the call of buildInputs
literalOf(pinId) ==
    IF pinId \in DOMAIN call.literalInputs THEN call.literalInputs[pinId] ELSE "undef"

\* the sources connected to a pin in the call of buildInputs
sourcesOf(pinId) == IF pinId \in DOMAIN call.binding THEN call.binding[pinId] ELSE <<>>

\* the places, in the list of the sources of a pin, of those whose scope value is defined
definedSources(pinId) ==
    {i \in 1..Len(sourcesOf(pinId)) : scopeGet(call.scope, sourcesOf(pinId)[i]) # "undef"}

\* C27 (as claimed): buildInputs returns the literal inputs overlaid, for each
\* connected pin, with the scope value of the last source listed; a pin none
\* of whose sources has a defined value keeps its literal value.
C27_LastListedSourceWins ==
    (call.fn = "buildInputs" /\ ret.done) =>
        \A pinId \in DOMAIN ret.value :
            ret.value[pinId] =
                IF definedSources(pinId) = {} THEN literalOf(pinId)
                ELSE scopeGet(call.scope, sourcesOf(pinId)[Len(sourcesOf(pinId))])

\* C27 (amended): buildInputs returns the literal inputs overlaid, for each
\* connected pin, with the scope value of the last source listed among those
\* whose scope value is defined; a pin none of whose sources has a defined
\* value keeps its literal value; every literal and every connected pin is in
\* the result.
C27_LastDefinedSourceWins ==
    (call.fn = "buildInputs" /\ ret.done) =>
        /\ DOMAIN ret.value = (DOMAIN call.literalInputs) \cup (DOMAIN call.binding)
        /\ \A pinId \in DOMAIN ret.value :
               ret.value[pinId] =
                   IF definedSources(pinId) = {} THEN literalOf(pinId)
                   ELSE LET last == CHOOSE i \in definedSources(pinId) :
                                        \A j \in definedSources(pinId) : j <= i
                        IN  scopeGet(call.scope, sourcesOf(pinId)[last])

\* C27 witness: pin p has a literal and two sources, the first with a defined
\* scope value and the second without; the result holds the first one's value.
C27_Witness ==
    /\ call.fn = "buildInputs"
    /\ ret.done
    /\ literalOf("p") = "literal"
    /\ Len(sourcesOf("p")) = 2
    /\ definedSources("p") = {1}
    /\ ret.value["p"] = scopeGet(call.scope, sourcesOf("p")[1])

\* C24: in the graph St -> L(count = N) -body-> I -> L, L -complete-> E, as long
\* as the run is not cancelled, the body I is invoked at most N times, its
\* k-th invocation observes the index k-1, E is invoked only after the N-th
\* invocation of I and with the loop's blackboard key cleared, at most once,
\* and a run that has completed has invoked E (so that with N = 0 the loop
\* routes to complete without invoking I).
C24_LoopRunsBodyCountTimes ==
    /\ [](~signal.cancelled =>
            /\ invoked["I"] <= params.count
            /\ invoked["E"] <= 1
            /\ (invoked["E"] = 1 =>
                   invoked["I"] = params.count /\ loopKey("L") \notin DOMAIN blackboard)
            /\ ((status = "completed" /\ runCalls > 0) => invoked["E"] = 1))
    /\ [][(~signal.cancelled /\ invoked'["I"] # invoked["I"]) =>
            (\E f \in DOMAIN fib' :
                /\ fib'[f].pc = "invoking"
                /\ fib'[f].node = "I"
                /\ fib'[f].inputs["index"] = ToString(invoked["I"]))]_vars

\* C24 witness: a loop of two iterations has completed: I was invoked twice,
\* E once
C24_Witness ==
    /\ roots = <<"St">>
    /\ params.count = 2
    /\ status = "completed"
    /\ ~signal.cancelled
    /\ invoked["I"] = 2
    /\ invoked["E"] = 1
    /\ scope["L:index"] = "1"

\* fiber f invokes a node in the step
Invokes(f) ==
    /\ f \in DOMAIN fib'
    /\ Len(fib'[f].log) > (IF f \in DOMAIN fib THEN Len(fib[f].log) ELSE 0)

\* C22: every invocation of a node whose id is in the fast-forward set, or
\* that a rule installed matches, calls onFastForward and neither execute nor
\* _onExecute; every invocation of another node calls execute.
C22_FastForwardedSkipExecute ==
    [][\A f \in DOMAIN fib' :
          Invokes(f) =>
              IF \/ fib'[f].node \in fastForwardSet
                 \/ \E rule \in fastForwardRules :
                        ruleMatches(rule, fib'[f].node, nodeType(fib'[f].node))
              THEN fib'[f].called = {"onFastForward"}
              ELSE "execute" \in fib'[f].called]_vars

\* C22 witness: the Delay node, which only a rule matches, has been invoked by
\* a call of onFastForward
C22_Witness ==
    \E f \in Fibers :
        /\ fib[f].pc = "invoking"
        /\ fib[f].node = "Dl"
        /\ "Dl" \notin fastForwardSet
        /\ "delays" \in fastForwardRules
        /\ fib[f].called = {"onFastForward"}

\* the node ids of the entries of a queue
nodeIds(queue) == [i \in 1..Len(queue) |-> queue[i].nodeId]

\* the targets of the sequential transitions of a list, in transition-then-
\* connection order
RECURSIVE sequentialTargets(_, _)
sequentialTargets(nodeId, list) ==
    IF list = <<>> THEN <<>>
    ELSE (IF Head(list).strategy = "parallel" THEN <<>>
          ELSE getNext(nodeId, Head(list).pinId))
         \o sequentialTargets(nodeId, Tail(list))

\* the result of the body of a Branch or Delay node that is not fast-forwarded
\* and runs to its end
normalResult(nodeId, inputs) ==
    IF nodeId = "Br" THEN branchOnExecute(inputs, params)
    ELSE delayResume([cancelled |-> FALSE, fastForward |-> FALSE])

\* C23: a Branch or Delay node that is fast-forwarded (by the runner's set or
\* rules, or by the signal's flag) routes the pins its normal execution would
\* have routed: its targets are at the head of the queue.
C23_FastForwardRoutesSamePins ==
    \A f \in Fibers :
        (/\ fib[f].pc = "routing"
         /\ fib[f].node \in {"Br", "Dl"}
         /\ "onFastForward" \in fib[f].called) =>
            LET nodeId == fib[f].node
                normal == normalizeTransitions(nodeId,
                              normalResult(nodeId, fib[f].inputs).transitions)
                targets == sequentialTargets(nodeId, normal)
            IN  /\ Len(fib[f].queue) >= Len(targets)
                /\ SubSeq(nodeIds(fib[f].queue), 1, Len(targets)) = targets

\* C25: a Delay body invoked when a flag of the signal is set returns skipped
\* without sleeping; a cancel or a fast-forward signalled while it sleeps
\* makes it return skipped in that step; once the signal is cancelled the
\* target N of its pin next is not invoked; and its result is a success
\* (routing next) only when its timer expired with neither flag set.
C25_DelayIsRaceCancellable ==
    [][/\ \A f \in DOMAIN fib' :
             (Invokes(f) /\ fib'[f].node = "Dl" /\ (signal.cancelled \/ signal.fastForward))
                 => (fib'[f].ready = skipped)
       /\ \A f \in DOMAIN fib :
             (fib[f].ready = Sleeping /\ (signal'.cancelled \/ signal'.fastForward))
                 => (fib'[f].ready = skipped)
       /\ ((signal.cancelled /\ "N" \in Nodes) => (invoked'["N"] = invoked["N"]))
       /\ \A f \in DOMAIN fib' :
             (fib'[f].node = "Dl" /\ fib'[f].ready.status = "success") =>
                 /\ f \in DOMAIN fib
                 /\ \/ fib[f].ready = fib'[f].ready
                    \/ /\ fib[f].ready = Sleeping
                       /\ signal' = signal
                       /\ ~signal.cancelled /\ ~signal.fastForward
                       /\ sequentialTargets("Dl", fib'[f].ready.transitions) = <<"N">>
      ]_vars

\* C25 witness: a Delay body that slept has returned skipped on a cancel,
\* and its fiber has left its loop without invoking N
C25_Witness ==
    \E f \in Fibers :
        /\ nodeIds(fib[f].log) = <<"Dl">>
        /\ "_onExecute" \in fib[f].called
        /\ fib[f].ready = skipped
        /\ signal.cancelled /\ ~signal.fastForward
        /\ fib[f].pc = "done"
        /\ invoked["N"] = 0

\* C30: a routing step puts the targets of the sequential transitions, in
\* transition-then-connection order, before what the queue held; a fiber
\* invokes the head of its queue; so that in the graph X -> (M, Y),
\* M -a-> (P, Q), M -b-> R the nodes are invoked in the order X, M, P, Q, R, Y
\* when nothing is fast-forwarded.
C30_SequentialTargetsArePrepended ==
    /\ [][\A f \in DOMAIN fib :
             /\ (fib[f].pc \in {"invoking", "waiting"} /\ fib'[f].pc = "routing") =>
                    (\E result \in Settled(fib[f].ready, fib[f].node, child) \cup {fib[f].res} :
                        nodeIds(fib'[f].queue) =
                            sequentialTargets(fib[f].node,
                                normalizeTransitions(fib[f].node, result.transitions))
                            \o nodeIds(fib[f].queue))
             /\ Invokes(f) =>
                    (/\ fib'[f].node = Head(fib[f].queue).nodeId
                     /\ fib'[f].queue = Tail(fib[f].queue))]_vars
    /\ [](\A f \in Fibers :
             (Len(fib[f].log) > 0 /\ fib[f].log[1].nodeId = "X" /\ ~signal.fastForward) =>
                 nodeIds(fib[f].log) =
                     SubSeq(<<"X", "M", "P", "Q", "R", "Y">>, 1, Len(fib[f].log)))

\* C30 witness: M routed P, Q and R while Y was queued, and all were invoked
C30_Witness ==
    \E f \in Fibers : nodeIds(fib[f].log) = <<"X", "M", "P", "Q", "R", "Y">>
----------------------------------------------------------------------------
(* Cancellation during a wait, quiescence of a finished run, waiters       *)

\* C34: when fiber f resumes from its wait with the signal cancelled, it leaves
\* its loop: the scope and the outputs written are unchanged, nothing is routed
\* (its queue is unchanged and no fiber is forked), no node is invoked, and the
\* completion count of the waiting node, and of no other node, grows by one.
C34_CancelledWaitBreaksOut ==
    [][\A f \in Fibers :
          (fib[f].pc = "waiting" /\ signal.cancelled /\ fib'[f].pc # "waiting")
          => (/\ scope' = scope
              /\ emitted' = emitted
              /\ fib'[f].queue = fib[f].queue
              /\ Len(fib') = Len(fib)
              /\ invoked' = invoked
              /\ fib'[f].pc = "returned"
              /\ counts' = [counts EXCEPT ![fib[f].node] = @ + 1])]_vars

\* the fiber of W has left its wait on a cancelled signal: no node W waits for
\* has ever been invoked, W's outputs are not in the scope and W is counted once
C34_Witness ==
    /\ roots = <<"W", "S">>
    /\ signal.cancelled
    /\ Len(fib) >= 1
    /\ fib[1].log = <<[nodeId |-> "W", seq |-> 1, step |-> 0]>>
    /\ fib[1].pc \in {"returned", "done"}
    /\ ~fib[1].failed
    /\ invoked["A"] = 0 /\ invoked["D"] = 0
    /\ counts["W"] = 1 /\ invoked["W"] = 1
    /\ <<"W", "nodes">> \notin emitted

\* C36: whenever the status is terminal the run is quiescent: no fiber is
\* live, no node body is in flight and awaitCompletion() resolves.
C36_TerminalIsQuiescent ==
    status \in Terminal
    => (/\ live = {}
        /\ \A f \in Fibers : fib[f].pc # "invoking"
        /\ awaitCompletionResolves)

\* C37: every stored waiter has a target above the completion count of its
\* node, and a step never decreases a completion count nor raises it by more
\* than one.
C37_WaitersAreUnsatisfied ==
    /\ [](\A w \in waiters : w.targetCount > counts[w.node])
    /\ [][\A n \in Nodes : counts'[n] \in {counts[n], counts[n] + 1}]_vars

\* a waiter for the next completion of a node that has already completed
C37_Witness ==
    \E w \in waiters : counts[w.node] >= 1 /\ w.targetCount = counts[w.node] + 1

\* C33: once a fiber has thrown, the run ends in the failed state: the status
\* is failed, no fiber is live and awaitCompletion() resolves.
C33_ThrowEndsFailed ==
    AnyThrew ~> (status = "failed" /\ live = {} /\ completion = "resolved")

\* the fibers forked by the parallel transition of S while the fiber of S has
\* gone on to a further node: S did not await them
Detached ==
    {c \in Fibers : /\ c > Len(roots)
                    /\ \E p \in Fibers : /\ Len(fib[p].log) >= 2
                                         /\ fib[p].log[1].nodeId = "S"}

\* C32: while a fiber forked without awaitCompletion has not settled, the run
\* is in no terminal state and awaitCompletion() does not resolve.
C32_DetachedForkHoldsTheRun ==
    \A c \in Detached :
        fib[c].pc # "done" => (status \notin Terminal /\ completion # "resolved")

----------------------------------------------------------------------------
(* The effective transitions of a result *)

\* the strategy a transition without one takes: the one declared on the output
\* pin, else sequential
filled(nodeId, t) ==
    IF t.strategy # "undef" THEN t
    ELSE [t EXCEPT !.strategy = IF pinStrategy(nodeId, t.pinId) # "undef"
                                 THEN pinStrategy(nodeId, t.pinId) ELSE "sequential"]

\* C31: the transitions routed for a result whose transitions field is set are
\* exactly those, each with its strategy filled in; for a result without the
\* field they are the single sequential transition on defaultOutput, or none.
C31_EffectiveTransitions ==
    (call.fn = "normalizeTransitions" /\ ret.done)
    => ret.value = IF call.set
                   THEN [i \in 1..Len(call.transitions) |->
                            filled(call.nodeId, call.transitions[i])]
                   ELSE IF defaultOutput(call.nodeId) = "undef" THEN <<>>
                   ELSE <<[pinId |-> defaultOutput(call.nodeId),
                           strategy |-> "sequential", awaitCompletion |-> "undef"]>>

----------------------------------------------------------------------------
(* The completion of a node that awaits its forks *)

\* fiber c was forked by the invocation of Fk that is awaiting it
AwaitedByFk(c) ==
    \E p \in Fibers : fib[p].pc = "routing" /\ fib[p].node = "Fk" /\ c \in fib[p].awaiting

----------------------------------------------------------------------------
(* The Loop node when it is fast-forwarded *)

\* C39: the body of the loop is routed at most count times, fast-forwarded or
\* not: the node I of the body is invoked at most count times.
C39_BodyRoutedAtMostCount == invoked["I"] <= loopTotal(params.count)

----------------------------------------------------------------------------
(* Cancelling the parent of a child run *)

\* C40: once the parent's signal is cancelled, no further node of the child
\* graph is invoked.
C40_CancelStopsChild == [][signal.cancelled => child'.invoked = child.invoked]_vars

----------------------------------------------------------------------------
(* The blackboard of successive runs of the sequencer *)

\* C35: a run started by play() sees no blackboard variable written by the
\* run before it: the blackboard of the new run is empty.
C35_RunsShareNoBlackboard == [][runCalls' # runCalls => blackboard' = EmptyScope]_vars

====
